---------------------------- MODULE Spec2Model ----------------------------
(***************************************************************************)
(* Serde adapters of fil_pasta_curves (src/src/serde_impl.rs): the         *)
(* Serialize / Deserialize implementations of the two field types Fp, Fq   *)
(* and the two affine point types EpAffine, EqAffine.                      *)
(*                                                                         *)
(* The adapters are translated from serde_impl.rs.  The field and curve    *)
(* capabilities they call (to_repr, from_repr, to_bytes,                   *)
(* from_bytes_unchecked) live in the crate's fields/ and curves modules,   *)
(* which are not part of the source at hand; they are modelled from        *)
(* spec.md sections 4.1, 4.2 and 6.                                        *)
(*                                                                         *)
(* Scale.  The crate works with 32 bytes of 8 bits and two 255-bit primes. *)
(* The model keeps the shape and shrinks the numbers: a representation is  *)
(* ReprLen "bytes" of ByteBits bits (8 bits in all), and the two primes    *)
(* are a genuine cycle of prime-order curves y^2 = x^3 + CURVE_B,          *)
(* #E(F_67) = 79 and #E(F_79) = 67, both primes of one bit less than the   *)
(* representation, as the Pasta primes are (p, q < 2^255).                 *)
(***************************************************************************)
EXTENDS Naturals, Sequences, FiniteSets

\* [u8; 32]: the array length (32 in the crate) and the bits of one byte (8).
ReprLen == 4
ByteBits == 2

\* The longest byte-string leaf a deserializer is handed.
MaxLeafLen == 5

\* Moduli of Fp and Fq, and the constant of both curves (5 in the crate).
P_MODULUS == 67
Q_MODULUS == 79
CURVE_B == 7

ERR_CODE == "deserialized bytes don't encode a field element"

\* The error serde's own [u8; N] visitor raises for a sequence that is not
\* N elements long; serde_impl.rs passes it on with `?`.
INVALID_LENGTH == "invalid length, expected an array of length 32"

Radix == 2 ^ ByteBits
Byte == 0 .. (Radix - 1)
TopBit == Radix \div 2

Types == {"Fp", "Fq", "EpAffine", "EqAffine"}
FieldTypes == {"Fp", "Fq"}
PointTypes == {"EpAffine", "EqAffine"}

\* The base field of each type: Fp for Fp and for the points of Ep (Pallas),
\* Fq for Fq and for the points of Eq (Vesta).
Modulus(ty) == IF ty \in {"Fp", "EpAffine"} THEN P_MODULUS ELSE Q_MODULUS

---------------------------------------------------------------------------
(* Option (subtle::CtOption turned into Option) and Result.                *)

None == <<>>
Some(v) == <<v>>

Ok(v) == [ok |-> TRUE, v |-> v]
Err(e) == [ok |-> FALSE, err |-> e]

---------------------------------------------------------------------------
(* FixedBytes32: little-endian byte strings.                               *)

Zeros == [i \in 1 .. ReprLen |-> 0]

RECURSIVE LeInt(_)
LeInt(bytes) ==
    IF bytes = <<>> THEN 0
    ELSE Head(bytes) + Radix * LeInt(Tail(bytes))

ToLeBytes(n) == [i \in 1 .. ReprLen |-> (n \div (Radix ^ (i - 1))) % Radix]

\* tmp[31] >> 7 and tmp[31] &= 0b0111_1111
SignBit(bytes) == bytes[ReprLen] \div TopBit
ClearSign(bytes) == [bytes EXCEPT ![ReprLen] = @ % TopBit]
\* xbytes[31] |= sign << 7
OrSign(bytes, sign) ==
    [bytes EXCEPT ![ReprLen] = IF sign = 1 /\ @ < TopBit THEN @ + TopBit ELSE @]

RECURSIVE SeqsOfLen(_)
SeqsOfLen(n) ==
    IF n = 0 THEN {<<>>}
    ELSE {Append(s, b) : s \in SeqsOfLen(n - 1), b \in Byte}

Leaves == UNION {SeqsOfLen(n) : n \in 0 .. MaxLeafLen}

---------------------------------------------------------------------------
(* FieldCodec (spec.md 4.1): a field element is its canonical integer,     *)
(* 0 <= e < modulus.                                                       *)

FieldElements(m) == 0 .. (m - 1)

\* canonical_bytes: the little-endian representation of e.
to_repr(e) == ToLeBytes(e)

\* Checked decode: succeed iff the little-endian integer is < modulus.
from_repr(m, bytes) ==
    IF LeInt(bytes) < m THEN Some(LeInt(bytes)) ELSE None

\* Unchecked decode: the same interpretation without the rejection branch;
\* for an out-of-range integer the element produced is unspecified.
from_repr_unchecked(m, bytes) ==
    IF LeInt(bytes) < m THEN {LeInt(bytes)} ELSE FieldElements(m)

---------------------------------------------------------------------------
(* PointCodec (spec.md 4.2).                                               *)

Identity == [id |-> TRUE, x |-> 0, y |-> 0]
Pt(x, y) == [id |-> FALSE, x |-> x, y |-> y]

OnCurve(m, x, y) == (y * y) % m = (x * x * x + CURVE_B) % m

\* The y of the given parity over x, if the curve has one.
lift_x(m, x, parity) ==
    LET ys == {y \in FieldElements(m) : OnCurve(m, x, y) /\ y % 2 = parity}
    IN  IF ys = {} THEN None ELSE Some(Pt(x, CHOOSE y \in ys : TRUE))

AffinePoints(m) ==
    {Identity} \cup
    {Pt(c[1], c[2]) :
        c \in {d \in FieldElements(m) \X FieldElements(m) : OnCurve(m, d[1], d[2])}}

to_bytes(pt) ==
    IF pt.id THEN Zeros ELSE OrSign(to_repr(pt.x), pt.y % 2)

\* Checked decode, steps 1 to 5.
from_bytes(m, bytes) ==
    IF bytes = Zeros THEN Some(Identity)
    ELSE LET x == from_repr(m, ClearSign(bytes))
         IN  IF x = None THEN None
             ELSE lift_x(m, x[1], SignBit(bytes))

\* Step 4 with the on-curve check skipped: the lifted point when x has a y
\* of the parity, else an unspecified y.
UncheckedLift(m, x, parity) ==
    IF lift_x(m, x, parity) # None THEN {lift_x(m, x, parity)}
    ELSE {Some(Pt(x, y)) : y \in FieldElements(m)}

\* Unchecked decode: the same steps with the field decode unchecked and the
\* on-curve check skipped.  The set is what a call may return: the point a
\* Checked decode returns when there is one; for any other input the result
\* is unspecified (no point, or a pair the curve does not hold).
from_bytes_unchecked(m, bytes) ==
    IF from_bytes(m, bytes) # None THEN {from_bytes(m, bytes)}
    ELSE {None} \cup
         UNION {UncheckedLift(m, x, SignBit(bytes)) :
                    x \in from_repr_unchecked(m, ClearSign(bytes))}

---------------------------------------------------------------------------
(* CodecAdapter: serde_impl.rs.  A leaf is the sequence of numbers the     *)
(* data format carries for a [u8; 32].                                     *)

\* <[u8; 32] as Serialize>::serialize: one element per byte.
array_serialize(bytes) == [i \in 1 .. ReprLen |-> bytes[i]]

\* <[u8; 32]>::deserialize(d): the bytes of a leaf of exactly 32 elements,
\* else the format's own length error.
array_deserialize(d) ==
    IF Len(d) = ReprLen THEN Ok([i \in 1 .. ReprLen |-> d[i]])
    ELSE Err(INVALID_LENGTH)

\* match option { Some(v) => Ok(v), None => Err(D::Error::custom(ERR_CODE)) }
MatchOption(opt) == IF opt # None THEN Ok(opt[1]) ELSE Err(ERR_CODE)

Fp_serialize(self) == array_serialize(to_repr(self))

\* Fp_deserialize with a reducing conversion in place of from_repr.
Fp_deserialize_reducing(d) ==
    LET bytes == array_deserialize(d)
    IN  IF ~bytes.ok THEN {bytes}
        ELSE {Ok(LeInt(bytes.v) % P_MODULUS)}

Fp_deserialize(d) ==
    LET bytes == array_deserialize(d)
    IN  IF ~bytes.ok THEN {bytes}
        ELSE {MatchOption(from_repr(P_MODULUS, bytes.v))}

Fq_serialize(self) == array_serialize(to_repr(self))

\* Fq_deserialize calling Fp::from_repr, as copied from the impl for Fp.
Fq_deserialize_as_Fp(d) ==
    LET bytes == array_deserialize(d)
    IN  IF ~bytes.ok THEN {bytes}
        ELSE {MatchOption(from_repr(P_MODULUS, bytes.v))}

Fq_deserialize(d) ==
    LET bytes == array_deserialize(d)
    IN  IF ~bytes.ok THEN {bytes}
        ELSE {MatchOption(from_repr(Q_MODULUS, bytes.v))}

\* EpAffine_serialize writing the x coordinate alone.
EpAffine_serialize_x_only(self) == array_serialize(to_repr(self.x))

EpAffine_serialize(self) == array_serialize(to_bytes(self))

\* EpAffine_deserialize calling EqAffine::from_bytes_unchecked, as copied
\* from the impl for EqAffine.
EpAffine_deserialize_as_Eq(d) ==
    LET bytes == array_deserialize(d)
    IN  IF ~bytes.ok THEN {bytes}
        ELSE {MatchOption(opt) : opt \in from_bytes_unchecked(Q_MODULUS, bytes.v)}

EpAffine_deserialize(d) ==
    LET bytes == array_deserialize(d)
    IN  IF ~bytes.ok THEN {bytes}
        ELSE {MatchOption(opt) : opt \in from_bytes_unchecked(P_MODULUS, bytes.v)}

EqAffine_serialize(self) == array_serialize(to_bytes(self))

\* EqAffine_deserialize turning the identity away.
EqAffine_deserialize_no_identity(d) ==
    LET bytes == array_deserialize(d)
    IN  IF ~bytes.ok THEN {bytes}
        ELSE {IF opt # None /\ ~opt[1].id THEN Ok(opt[1]) ELSE Err(ERR_CODE) :
                  opt \in from_bytes_unchecked(Q_MODULUS, bytes.v)}

EqAffine_deserialize(d) ==
    LET bytes == array_deserialize(d)
    IN  IF ~bytes.ok THEN {bytes}
        ELSE {MatchOption(opt) : opt \in from_bytes_unchecked(Q_MODULUS, bytes.v)}

---------------------------------------------------------------------------
(* The state: one value of one type on its way through the adapters.       *)
(*   start        a live value t waits to be serialized (test_roundtrip)   *)
(*   received     a leaf from outside waits to be deserialized             *)
(*   serialized   ser is t's leaf                                          *)
(*   deserialized de is the outcome of deserializing ser                   *)
(*   reserialized reser is the leaf of the value de holds                  *)

VARIABLES ty, pc, t, ser, de, reser

vars == <<ty, pc, t, ser, de, reser>>

\* The live values of a type: reduced field elements, points of the curve.
Values(type) ==
    IF type \in FieldTypes THEN FieldElements(Modulus(type))
    ELSE AffinePoints(Modulus(type))

Init ==
    /\ ty \in Types
    /\ de = <<>>
    /\ reser = <<>>
    /\ \/ /\ pc = "start"
          /\ t \in {<<v>> : v \in Values(ty)}
          /\ ser = <<>>
       \/ /\ pc = "received"
          /\ t = <<>>
          /\ ser \in Leaves

\* <T as Serialize>::serialize: the leaf written for v.
SerializeOf(type, v) ==
    CASE type = "Fp" -> Fp_serialize(v)
      [] type = "Fq" -> Fq_serialize(v)
      [] type = "EpAffine" -> EpAffine_serialize(v)
      [] type = "EqAffine" -> EqAffine_serialize(v)

\* serialize(&self, s): of the live value, or of the value just decoded.
Serialized(type) ==
    \/ /\ pc = "start"
       /\ ser' = SerializeOf(type, t[1])
       /\ pc' = "serialized"
       /\ UNCHANGED <<ty, t, de, reser>>
    \/ /\ pc = "deserialized"
       /\ de[1].ok
       /\ reser' = <<SerializeOf(type, de[1].v)>>
       /\ pc' = "reserialized"
       /\ UNCHANGED <<ty, t, ser, de>>

\* deserialize(d): of the leaf on the wire.
Deserialized(outcomes) ==
    /\ pc \in {"serialized", "received"}
    /\ \E o \in outcomes : de' = <<o>>
    /\ pc' = "deserialized"
    /\ UNCHANGED <<ty, t, ser, reser>>

SerializeFp == ty = "Fp" /\ Serialized("Fp")
DeserializeFp == ty = "Fp" /\ Deserialized(Fp_deserialize(ser))
SerializeFq == ty = "Fq" /\ Serialized("Fq")
DeserializeFq == ty = "Fq" /\ Deserialized(Fq_deserialize(ser))
SerializeEpAffine == ty = "EpAffine" /\ Serialized("EpAffine")
DeserializeEpAffine == ty = "EpAffine" /\ Deserialized(EpAffine_deserialize(ser))
SerializeEqAffine == ty = "EqAffine" /\ Serialized("EqAffine")
DeserializeEqAffine == ty = "EqAffine" /\ Deserialized(EqAffine_deserialize(ser))

Next ==
    \/ SerializeFp
    \/ DeserializeFp
    \/ SerializeFq
    \/ DeserializeFq
    \/ SerializeEpAffine
    \/ DeserializeEpAffine
    \/ SerializeEqAffine
    \/ DeserializeEqAffine

Spec == Init /\ [][Next]_vars

---------------------------------------------------------------------------
(* What the claims speak of.                                               *)

\* Decode(Checked, bytes) of a type's codec, as a decode outcome.
CheckedDecode(type, bytes) ==
    IF type \in FieldTypes THEN MatchOption(from_repr(Modulus(type), bytes))
    ELSE MatchOption(from_bytes(Modulus(type), bytes))

Decoded == pc \in {"deserialized", "reserialized"}
FullLeaf == Len(ser) = ReprLen

\* C1: every Deserialize returns, for a leaf of full length, exactly the
\* outcome the Checked decode of its codec returns.
C1_PublicDecodeIsChecked ==
    (Decoded /\ FullLeaf) => de[1] = CheckedDecode(ty, ser)

\* C2: a non-zero leaf whose x (sign bit cleared) is in range and has no
\* y of the recorded parity on the curve is never deserialized to a point.
C2_OffCurveRejected ==
    (/\ ty \in PointTypes
     /\ Decoded
     /\ FullLeaf
     /\ ser # Zeros
     /\ from_repr(Modulus(ty), ClearSign(ser)) # None
     /\ lift_x(Modulus(ty), LeInt(ClearSign(ser)), SignBit(ser)) = None)
    => ~de[1].ok

\* C3: Deserialize of Fp (Fq) succeeds iff the little-endian integer of the
\* leaf is < the modulus, returns that integer unreduced, and else fails.
C3_OutOfRangeRejected ==
    (ty \in FieldTypes /\ Decoded /\ FullLeaf) =>
        /\ de[1].ok <=> LeInt(ser) < Modulus(ty)
        /\ de[1].ok => de[1].v = LeInt(ser)
        /\ ~de[1].ok => de[1].err = ERR_CODE

C3_Witness ==
    /\ ty = "Fp"
    /\ pc = "deserialized"
    /\ FullLeaf
    /\ LeInt(ser) = P_MODULUS
    /\ ~de[1].ok

\* C4: when a leaf is accepted with Ok(v), serializing v gives the leaf back.
C4_CanonicalDecoding ==
    pc = "reserialized" => reser[1] = ser

\* C5: serializing a point of either curve (Identity included) and
\* deserializing the leaf returns Ok of that point, same x and same y.
C5_PointRoundTrip ==
    (ty \in PointTypes /\ Decoded /\ t # <<>>) => de[1] = Ok(t[1])

C5_Witness ==
    /\ ty = "EpAffine"
    /\ pc = "deserialized"
    /\ t # <<>>
    /\ ~t[1].id
    /\ t[1].y % 2 = 1
    /\ de[1].ok
    /\ de[1].v.y = t[1].y

\* C6: serializing a field element of Fp or Fq and deserializing the leaf
\* returns Ok of that element.
C6_FieldRoundTrip ==
    (ty \in FieldTypes /\ Decoded /\ t # <<>>) => de[1] = Ok(t[1])

C6_Witness ==
    /\ ty = "Fq"
    /\ pc = "deserialized"
    /\ t = <<Q_MODULUS - 1>>
    /\ de[1].ok

\* C7: every error a Deserialize returns, for a leaf of the wrong length as
\* for a leaf that fails validation, is the one ERR_CODE signal.
C7_UniformError ==
    (Decoded /\ ~de[1].ok) => de[1].err = ERR_CODE

\* C8: Identity serializes to the zero leaf, no other point does, and the
\* zero leaf deserializes to Ok(Identity), on both curves.
C8_IdentityCanonical ==
    ty \in PointTypes =>
        /\ pc = "serialized" => (ser = Zeros <=> t[1] = Identity)
        /\ (Decoded /\ ser = Zeros) => de[1] = Ok(Identity)

C8_Witness ==
    /\ ty = "EqAffine"
    /\ pc = "deserialized"
    /\ t = <<>>
    /\ ser = Zeros
    /\ de[1].ok
    /\ de[1].v.id

\* C9: Serialize is injective on the values of a type, and the leaf of a
\* field element has the top bit of its final byte clear.
C9_EncodeInjective ==
    pc = "serialized" =>
        /\ \A u \in Values(ty) : SerializeOf(ty, u) = ser => u = t[1]
        /\ ty \in FieldTypes => SignBit(ser) = 0
        /\ (ty \in PointTypes /\ ~t[1].id) => ClearSign(ser) = to_repr(t[1].x)

C9_Witness ==
    /\ ty = "EpAffine"
    /\ pc = "serialized"
    /\ ~t[1].id
    /\ SignBit(ser) = 1
    /\ \E u \in Values(ty) : u # t[1] /\ ~u.id /\ u.x = t[1].x

===========================================================================
